---- MODULE Spec2Model ----
(***************************************************************************)
(* A model of the two screens of react-native-examples:                    *)
(*   - the commerce main page (title resolver, section index, deep-link    *)
(*     scroll driven by the scrollTo route parameter), and                 *)
(*   - the supplements tab (unscheduled-item filter, refresh on focus).    *)
(*                                                                         *)
(* A JavaScript string is modelled as a sequence of characters, each       *)
(* character a one-character TLA+ string; U+2019 (the typographic          *)
(* apostrophe) and U+00E9 (e acute) are written "U+2019" and "U+00E9".     *)
(***************************************************************************)
EXTENDS Integers, Sequences, FiniteSets, TLC

VARIABLES
    \* ---- title resolver (pure function, driven over bounded inputs)
    orig,       \* the title the current equivalence class started from
    title,      \* the title handed to titleToSlug
    edits,      \* number of edits applied to reach title
    resolved,   \* titleToSlug(title)
    index,      \* indexBySlug.get(resolved)
    \* ---- unscheduled-item filter (pure function, driven over bounded inputs)
    items,      \* the supps argument of computeUnscheduled
    groupings,  \* the reminders argument of computeUnscheduled
    unscheduled,\* its result
    computed,   \* whether computeUnscheduled has returned
    \* ---- MainPage
    urlLoading,      \* useAdUrls().urlLoading
    categoryLoading, \* useStoreCategories().categoryLoading
    timeDealLoading, \* useTimeDealEndsAt().timeDealLoading
    deferred,        \* the deferred state of MainPage
    isFocused,       \* navigation.isFocused()
    params,          \* route.params: a record with or without scrollTo
    arrival,         \* how many times scrollTo has been handed to the screen
    timers,          \* callbacks of setTimeout(..., 100) not yet run, oldest first
    scrollTasks,     \* callbacks of scrollToShowcase not yet run, oldest first
    requests,        \* per arrival, the scrolls scrollToShowcase has asked for
    listIndex,       \* the row the list was last told to scroll to
    lastTitle,       \* the title of the timer callback that ran last
    arrivedDone,     \* per arrival, whether done held when it arrived
    \* ---- Supplements screen
    supplements,            \* useState: supplements
    unscheduledSupplements, \* useState: unscheduledSupplements
    loading,                \* useState: loading
    tabFocused,             \* whether the tab is focused
    refreshes,              \* the calls of refresh(), in the order they started
    applied,                \* the call whose results were set last (0: none)
    deletedSince            \* the ids handleDeleted was called with since then

tvars == <<orig, title, edits, resolved, index>>
uvars == <<items, groupings, unscheduled, computed>>
mvars == <<urlLoading, categoryLoading, timeDealLoading, deferred, isFocused,
           params, arrival, timers, scrollTasks, requests, listIndex, lastTitle,
           arrivedDone>>
svars == <<supplements, unscheduledSupplements, loading, tabFocused,
           refreshes, applied, deletedSince>>
vars == <<tvars, uvars, mvars, svars>>

(***************************************************************************)
(* Characters                                                              *)
(***************************************************************************)
UpperLetters ==
    <<"A", "B", "C", "D", "E", "F", "G", "H", "I", "J", "K", "L", "M",
      "N", "O", "P", "Q", "R", "S", "T", "U", "V", "W", "X", "Y", "Z">>

LowerLetters ==
    <<"a", "b", "c", "d", "e", "f", "g", "h", "i", "j", "k", "l", "m",
      "n", "o", "p", "q", "r", "s", "t", "u", "v", "w", "x", "y", "z">>

Digits == {"0", "1", "2", "3", "4", "5", "6", "7", "8", "9"}

Range(f) == {f[i] : i \in DOMAIN f}

\* the class [a-z0-9] of the regular expression in norm
AlnumLower == Range(LowerLetters) \cup Digits

\* the class ['’] of the regular expression in norm
Apostrophes == {"'", "U+2019"}

\* what String.prototype.trim removes (the white space of the model's alphabet)
Whitespace == {" "}

\* "no match": the JavaScript value undefined
undefined == "<undefined>"

\* the function Object, which every object literal inherits as .constructor
ObjectConstructor == "<function Object>"

(***************************************************************************)
(* Each specification below drives one component and keeps the others at   *)
(* rest.                                                                   *)
(***************************************************************************)
\* the resolver at rest (in the specifications of the other components)
IdleTitle ==
    /\ orig = <<>>
    /\ title = <<>>
    /\ edits = 0
    /\ resolved = "<undefined>"
    /\ index = -1

\* the filter at rest (in the specifications of the other components)
IdleFilter ==
    /\ items = <<>>
    /\ groupings = <<>>
    /\ unscheduled = <<>>
    /\ computed = FALSE

\* route.params without scrollTo
NoParams == [screen |-> "MainPage"]

\* MainPage as mounted: the three hooks loading, nothing scheduled
MountedMain ==
    /\ urlLoading = TRUE
    /\ categoryLoading = TRUE
    /\ timeDealLoading = TRUE
    /\ deferred = FALSE
    /\ isFocused = FALSE
    /\ params = NoParams
    /\ arrival = 0
    /\ timers = <<>>
    /\ scrollTasks = <<>>
    /\ requests = <<>>
    /\ listIndex = 0
    /\ lastTitle = <<>>
    /\ arrivedDone = <<>>

\* the Supplements screen as mounted: the initial values of its useState
MountedSupplements ==
    /\ supplements = <<>>
    /\ unscheduledSupplements = <<>>
    /\ loading = TRUE
    /\ tabFocused = FALSE
    /\ refreshes = <<>>
    /\ applied = 0
    /\ deletedSince = {}

(***************************************************************************)
(* String.prototype functions used by the source                           *)
(***************************************************************************)
LowerOf ==
    [c \in Range(UpperLetters) |->
        LowerLetters[CHOOSE k \in DOMAIN UpperLetters : UpperLetters[k] = c]]

toLowerCaseChar(c) == IF c \in DOMAIN LowerOf THEN LowerOf[c] ELSE c

toLowerCase(s) == [i \in 1..Len(s) |-> toLowerCaseChar(s[i])]

RECURSIVE trimStart(_)
trimStart(s) ==
    IF s # <<>> /\ Head(s) \in Whitespace THEN trimStart(Tail(s)) ELSE s

RECURSIVE trimEnd(_)
trimEnd(s) ==
    IF s # <<>> /\ s[Len(s)] \in Whitespace
    THEN trimEnd(SubSeq(s, 1, Len(s) - 1))
    ELSE s

trim(s) == trimEnd(trimStart(s))

\* .replace(/['’]/g, "")
IsNotApostrophe(c) == c \notin Apostrophes

stripApostrophes(s) == SelectSeq(s, IsNotApostrophe)

\* .replace(/[^a-z0-9]+/g, " "): every maximal run of characters outside
\* [a-z0-9] becomes one space.  A space of the output always comes from a
\* run, so "the output ends in a space" is "the scan is inside a run".
RECURSIVE collapseFrom(_, _)
collapseFrom(s, out) ==
    IF s = <<>> THEN out
    ELSE IF Head(s) \in AlnumLower
         THEN collapseFrom(Tail(s), Append(out, Head(s)))
         ELSE IF out # <<>> /\ out[Len(out)] = " "
              THEN collapseFrom(Tail(s), out)
              ELSE collapseFrom(Tail(s), Append(out, " "))

collapseNonAlnum(s) == collapseFrom(s, <<>>)

\* a norm that forgets to lower-case (used to test the claims on norm)
norm_NoLowerCase(s) == trim(collapseNonAlnum(stripApostrophes(s)))

norm(s) == trim(collapseNonAlnum(stripApostrophes(toLowerCase(s))))

(***************************************************************************)
(* TAGS, SHOWCASE_ALIAS                                                    *)
(***************************************************************************)
T_BestSellers ==
    <<"B", "e", "s", "t", " ", "S", "e", "l", "l", "e", "r", "s">>
T_LimitedTimeDeals ==
    <<"L", "i", "m", "i", "t", "e", "d", "-", "T", "i", "m", "e", " ",
      "D", "e", "a", "l", "s">>
T_BundlesForYourGoals ==
    <<"B", "u", "n", "d", "l", "e", "s", " ", "f", "o", "r", " ",
      "Y", "o", "u", "r", " ", "G", "o", "a", "l", "s">>
T_TopRatedByCustomers ==
    <<"T", "o", "p", " ", "R", "a", "t", "e", "d", " ", "b", "y", " ",
      "C", "u", "s", "t", "o", "m", "e", "r", "s">>
T_ThisMonthsPicks ==
    <<"T", "h", "i", "s", " ", "M", "o", "n", "t", "h", "U+2019", "s", " ",
      "P", "i", "c", "k", "s">>
T_JustArrived ==
    <<"J", "u", "s", "t", " ", "A", "r", "r", "i", "v", "e", "d">>

TAGS ==
    << [title |-> T_BestSellers,         slug |-> "best-sellers"],
       [title |-> T_LimitedTimeDeals,    slug |-> "limited-time-deals"],
       [title |-> T_BundlesForYourGoals, slug |-> "bundles-for-your-goals"],
       [title |-> T_TopRatedByCustomers, slug |-> "top-rated-by-customers"],
       [title |-> T_ThisMonthsPicks,     slug |-> "this-months-picks"],
       [title |-> T_JustArrived,         slug |-> "just-arrived"] >>

\* the own properties of the object literal SHOWCASE_ALIAS, in source order
SHOWCASE_ALIAS ==
    << [key |-> <<"l", "i", "m", "i", "t", "e", "d", "-", "t", "i", "m", "e",
                  " ", "d", "e", "a", "l", "s">>,
        value |-> "limited-time-deals"],
       [key |-> <<"t", "o", "p", " ", "r", "a", "t", "e", "d", " ",
                  "p", "r", "o", "d", "u", "c", "t", "s">>,
        value |-> "top-rated-by-customers"],
       [key |-> <<"t", "o", "p", " ", "r", "a", "t", "e", "d", " ", "b", "y",
                  " ", "c", "u", "s", "t", "o", "m", "e", "r", "s">>,
        value |-> "top-rated-by-customers"],
       [key |-> <<"b", "e", "s", "t", " ", "s", "e", "l", "l", "e", "r", "s">>,
        value |-> "best-sellers"],
       [key |-> <<"b", "u", "n", "d", "l", "e", "s", " ", "f", "o", "r", " ",
                  "y", "o", "u", "r", " ", "g", "o", "a", "l", "s">>,
        value |-> "bundles-for-your-goals"],
       [key |-> <<"t", "h", "i", "s", " ", "m", "o", "n", "t", "h", "s", " ",
                  "p", "i", "c", "k", "s">>,
        value |-> "this-months-picks"],
       [key |-> <<"j", "u", "s", "t", " ", "a", "r", "r", "i", "v", "e", "d">>,
        value |-> "just-arrived"] >>

AliasKeys == {SHOWCASE_ALIAS[k].key : k \in DOMAIN SHOWCASE_ALIAS}

\* SHOWCASE_ALIAS is a plain object literal, so SHOWCASE_ALIAS[n] also finds
\* what the literal inherits from Object.prototype.  These are the inherited
\* properties whose names are made of letters only (the others,
\* __proto__, __defineGetter__, ..., hold "_", which norm never returns).
\* All of them are functions, hence truthy.
ObjectPrototype ==
    << [key |-> <<"c", "o", "n", "s", "t", "r", "u", "c", "t", "o", "r">>,
        value |-> ObjectConstructor],
       [key |-> <<"t", "o", "S", "t", "r", "i", "n", "g">>,
        value |-> "<function toString>"],
       [key |-> <<"v", "a", "l", "u", "e", "O", "f">>,
        value |-> "<function valueOf>"],
       [key |-> <<"h", "a", "s", "O", "w", "n", "P", "r", "o", "p", "e", "r",
                  "t", "y">>,
        value |-> "<function hasOwnProperty>"] >>

\* table[n] over a list of properties: the value of the first property named
\* n, undefined when there is none
Lookup(table, n) ==
    IF \E k \in DOMAIN table : table[k].key = n
    THEN table[CHOOSE k \in DOMAIN table : table[k].key = n].value
    ELSE undefined

\* SHOWCASE_ALIAS[n] reading own properties only (as a Map would)
AliasGet_OwnOnly(n) == Lookup(SHOWCASE_ALIAS, n)

\* SHOWCASE_ALIAS[n]: own properties first, then the prototype chain
AliasGet(n) ==
    LET own == Lookup(SHOWCASE_ALIAS, n)
    IN  IF own # undefined THEN own ELSE Lookup(ObjectPrototype, n)

\* TAGS.find((t) => norm(t.title) === n)?.slug
TagNorms == [k \in DOMAIN TAGS |-> norm(TAGS[k].title)]

TagsFind(n) ==
    IF \E k \in DOMAIN TAGS : TagNorms[k] = n
    THEN LET k == CHOOSE k \in DOMAIN TAGS :
                    /\ TagNorms[k] = n
                    /\ \A j \in 1..(k - 1) : TagNorms[j] # n
         IN  TAGS[k].slug
    ELSE undefined

\* a resolver that looks the raw title up instead of its normal form
titleToSlug_Raw(t) ==
    LET alias == AliasGet(t)
    IN  IF alias # undefined THEN alias ELSE TagsFind(t)

titleToSlug(t) ==
    LET n == norm(t)
        alias == AliasGet(n)
    IN  IF alias # undefined THEN alias ELSE TagsFind(n)

(***************************************************************************)
(* sections, indexBySlug (positions are zero-based, as in the source)      *)
(***************************************************************************)
sections ==
    << [key |-> "banner", type |-> "banner"],
       [key |-> "categories", type |-> "categories"] >>
    \o [k \in DOMAIN TAGS |->
          [key |-> <<"tag-", TAGS[k].slug>>, type |-> "showcase",
           title |-> TAGS[k].title, slug |-> TAGS[k].slug,
           timed |-> (TAGS[k].slug = "limited-time-deals")]]

ShowcaseSlugs ==
    {sections[i].slug : i \in {j \in DOMAIN sections : sections[j].type = "showcase"}}

\* an index that counts the showcase rows only, forgetting banner and categories
indexBySlug_TagsOnly ==
    [s \in {TAGS[k].slug : k \in DOMAIN TAGS} |->
        (CHOOSE k \in DOMAIN TAGS : TAGS[k].slug = s) - 1]

\* the Map built by sections.forEach: a later row with the same slug overwrites
indexBySlug ==
    [s \in ShowcaseSlugs |->
        (CHOOSE i \in DOMAIN sections :
            /\ sections[i].type = "showcase"
            /\ sections[i].slug = s
            /\ \A j \in DOMAIN sections :
                 (j > i /\ sections[j].type = "showcase") => sections[j].slug # s)
        - 1]

\* what indexBySlug.get returns for a key the Map does not hold (undefined,
\* which "index == null" tests for); every position is >= 0
NoIndex == -1

\* indexBySlug.get(slug)
IndexGet(slug) ==
    IF slug \in DOMAIN indexBySlug THEN indexBySlug[slug] ELSE NoIndex

(***************************************************************************)
(* computeUnscheduled (supplements screen)                                 *)
(***************************************************************************)
\* r.selectedSupplements ?? []
SelectedOrEmpty(r) ==
    IF "selectedSupplements" \in DOMAIN r THEN r.selectedSupplements ELSE <<>>

\* for (const id of ids) inAnyReminder.add(id)
RECURSIVE AddIds(_, _)
AddIds(set, ids) ==
    IF ids = <<>> THEN set ELSE AddIds(set \cup {Head(ids)}, Tail(ids))

\* for (const r of reminders) { ... }
RECURSIVE CollectIds(_, _)
CollectIds(set, rems) ==
    IF rems = <<>> THEN set
    ELSE CollectIds(AddIds(set, SelectedOrEmpty(Head(rems))), Tail(rems))

\* supps.filter((s) => !set.has(s.id))
RECURSIVE FilterNotIn(_, _)
FilterNotIn(supps, set) ==
    IF supps = <<>> THEN <<>>
    ELSE IF Head(supps).id \notin set
         THEN <<Head(supps)>> \o FilterNotIn(Tail(supps), set)
         ELSE FilterNotIn(Tail(supps), set)

\* a filter that stops at the first reminder
computeUnscheduled_FirstReminderOnly(supps, rems) ==
    FilterNotIn(supps, CollectIds({}, SubSeq(rems, 1, 1)))

RECURSIVE Reverse(_)
Reverse(q) == IF q = <<>> THEN <<>> ELSE Append(Reverse(Tail(q)), Head(q))

\* a filter that collects its result back to front
computeUnscheduled_Unshift(supps, rems) ==
    Reverse(FilterNotIn(supps, CollectIds({}, rems)))

computeUnscheduled(supps, rems) ==
    LET inAnyReminder == CollectIds({}, rems)
    IN  FilterNotIn(supps, inAnyReminder)

(***************************************************************************)
(* Specification SpecFilter: computeUnscheduled applied to every item      *)
(* sequence with unique ids in 1..MaxId and every sequence of at most      *)
(* MaxReminders reminders, each without selectedSupplements or with at     *)
(* most MaxSelected ids drawn from 1..MaxId+1 (MaxId+1 is the id of no     *)
(* item).                                                                  *)
(***************************************************************************)
MaxId == 2
MaxSelected == 1
MaxReminders == 2

SeqsUpTo(S, n) == UNION {[1..k -> S] : k \in 0..n}

Item(i) == [id |-> i]

\* the item sequences with unique ids
ItemSeqs ==
    {[k \in DOMAIN q |-> Item(q[k])] :
        q \in {p \in SeqsUpTo(1..MaxId, MaxId) :
                  \A a, b \in DOMAIN p : a # b => p[a] # p[b]}}

Reminders ==
    {[time |-> "08:00"]}
    \cup {[time |-> "08:00", selectedSupplements |-> q] :
            q \in SeqsUpTo(1..(MaxId + 1), MaxSelected)}

ReminderSeqs == SeqsUpTo(Reminders, MaxReminders)

InitFilter ==
    /\ IdleTitle
    /\ MountedMain
    /\ MountedSupplements
    /\ items \in ItemSeqs
    /\ groupings \in ReminderSeqs
    /\ unscheduled = <<>>
    /\ computed = FALSE

CallComputeUnscheduled ==
    /\ ~computed
    /\ computed' = TRUE
    /\ unscheduled' = computeUnscheduled(items, groupings)
    /\ UNCHANGED <<items, groupings, tvars, mvars, svars>>

NextFilter == CallComputeUnscheduled

SpecFilter == InitFilter /\ [][NextFilter]_vars

\* the ids some reminder refers to (absent selectedSupplements: none)
ReferencedIds(rems) ==
    UNION {{r.selectedSupplements[k] : k \in DOMAIN r.selectedSupplements} :
             r \in {rems[j] : j \in {i \in DOMAIN rems :
                                       "selectedSupplements" \in DOMAIN rems[i]}}}

\* r is s with some of its elements left out, the others in the order of s
RECURSIVE IsSubsequence(_, _)
IsSubsequence(r, s) ==
    IF r = <<>> THEN TRUE
    ELSE IF s = <<>> THEN FALSE
    ELSE IF Head(r) = Head(s) THEN IsSubsequence(Tail(r), Tail(s))
    ELSE IsSubsequence(r, Tail(s))

\* C1: an item of I is in computeUnscheduled(I, G) iff its id is in no
\* reminder's selectedSupplements; an absent selectedSupplements counts as
\* empty, and ids of G that match no item add nothing to the result.
C1_UnscheduledIffUnreferenced ==
    computed =>
        /\ \A i \in DOMAIN items :
              (\E j \in DOMAIN unscheduled : unscheduled[j] = items[i])
                 <=> items[i].id \notin ReferencedIds(groupings)
        /\ \A j \in DOMAIN unscheduled :
              \E i \in DOMAIN items : items[i] = unscheduled[j]

\* two items, two reminders: one without selectedSupplements, one naming
\* item 1; item 1 is filtered out and item 2 is kept
C1_Witness ==
    /\ items = <<Item(2), Item(1)>>
    /\ groupings = <<[time |-> "08:00"],
                     [time |-> "08:00", selectedSupplements |-> <<1>>]>>
    /\ computed
    /\ unscheduled = <<Item(2)>>

\* C2: computeUnscheduled(I, G) is a subsequence of I in the order of I; it
\* is I when G is empty, and empty when I is empty.
C2_OrderPreservingSubsequence ==
    computed =>
        /\ IsSubsequence(unscheduled, items)
        /\ groupings = <<>> => unscheduled = items
        /\ items = <<>> => unscheduled = <<>>

\* two items kept in their order although a reminder names an unknown id
C2_Witness ==
    /\ items = <<Item(2), Item(1)>>
    /\ groupings = <<[time |-> "08:00", selectedSupplements |-> <<MaxId + 1>>]>>
    /\ computed
    /\ unscheduled = items

(***************************************************************************)
(* Specification SpecTitle: titleToSlug and indexBySlug.get applied to     *)
(* titles drawn from BaseTitles and to the titles a bounded number of      *)
(* character edits away from them.                                         *)
(***************************************************************************)
MaxEdits == 1

T_limited_time_deals ==
    <<"l", "i", "m", "i", "t", "e", "d", " ", "t", "i", "m", "e", " ",
      "d", "e", "a", "l", "s">>
T_LIMITED_TIME_DEALS ==
    <<"L", "I", "M", "I", "T", "E", "D", " ", "T", "I", "M", "E", " ",
      "D", "E", "A", "L", "S">>
T_TopRatedProducts ==
    <<"T", "o", "p", " ", "R", "a", "t", "e", "d", " ",
      "P", "r", "o", "d", "u", "c", "t", "s">>
T_FlashSaleExtravaganza ==
    <<"F", "l", "a", "s", "h", " ", "S", "a", "l", "e", " ",
      "E", "x", "t", "r", "a", "v", "a", "g", "a", "n", "z", "a">>
T_constructor ==
    <<"c", "o", "n", "s", "t", "r", "u", "c", "t", "o", "r">>
T_JustArrivedPadded ==
    <<" ", "J", "u", "s", "t", " ", "A", "r", "r", "i", "v", "e", "d", " ">>

BaseTitles ==
    {TAGS[k].title : k \in DOMAIN TAGS}
    \cup {T_limited_time_deals, T_LIMITED_TIME_DEALS, T_TopRatedProducts,
          T_FlashSaleExtravaganza, T_constructor, T_JustArrivedPadded,
          <<>>}

\* the non-alphanumeric characters the edits draw from (apostrophes apart)
Separators == {" ", "-", "!"}


UpperOf ==
    [c \in Range(LowerLetters) |->
        UpperLetters[CHOOSE k \in DOMAIN LowerLetters : LowerLetters[k] = c]]

IsLetter(c) == c \in DOMAIN LowerOf \/ c \in DOMAIN UpperOf

SwapCase(c) == IF c \in DOMAIN LowerOf THEN LowerOf[c] ELSE UpperOf[c]

ReplaceAt(s, i, c) == [s EXCEPT ![i] = c]
InsertAt(s, i, c) == SubSeq(s, 1, i - 1) \o <<c>> \o SubSeq(s, i, Len(s))
DeleteAt(s, i) == SubSeq(s, 1, i - 1) \o SubSeq(s, i + 1, Len(s))

\* position i of s is past an end of s, or holds a non-alphanumeric character
AtRun(s, i) == IF i \in DOMAIN s THEN s[i] \in Separators ELSE TRUE

\* title := t, then titleToSlug(t) and indexBySlug.get of its result
Resolve(t, o) ==
    /\ edits < MaxEdits
    /\ edits' = edits + 1
    /\ title' = t
    /\ orig' = o
    /\ resolved' = titleToSlug(t)
    /\ index' = IndexGet(resolved')
    /\ UNCHANGED <<uvars, mvars, svars>>

InitTitle ==
    /\ IdleFilter
    /\ MountedMain
    /\ MountedSupplements
    /\ orig \in BaseTitles
    /\ title = orig
    /\ edits = 0
    /\ resolved = titleToSlug(orig)
    /\ index = IndexGet(titleToSlug(orig))

\* the same title with the case of one letter changed
ChangeCase ==
    \E i \in DOMAIN title :
        /\ IsLetter(title[i])
        /\ Resolve(ReplaceAt(title, i, SwapCase(title[i])), orig)

\* the same title with an apostrophe added anywhere
InsertApostrophe ==
    \E i \in 1..(Len(title) + 1), a \in Apostrophes :
        Resolve(InsertAt(title, i, a), orig)

\* the same title with one of its apostrophes removed
DeleteApostrophe ==
    \E i \in DOMAIN title :
        /\ title[i] \in Apostrophes
        /\ Resolve(DeleteAt(title, i), orig)

\* the same title with one character of a non-alphanumeric run replaced
ReplaceSeparator ==
    \E i \in DOMAIN title, c \in Separators :
        /\ title[i] \in Separators
        /\ c # title[i]
        /\ Resolve(ReplaceAt(title, i, c), orig)

\* a non-alphanumeric run made longer, or a leading/trailing run added
GrowRun ==
    \E i \in 1..(Len(title) + 1), c \in Separators :
        /\ AtRun(title, i - 1) \/ AtRun(title, i)
        /\ Resolve(InsertAt(title, i, c), orig)

\* a non-alphanumeric run made shorter (not removed), or a leading/trailing
\* run cut
ShrinkRun ==
    \E i \in DOMAIN title :
        /\ title[i] \in Separators
        /\ AtRun(title, i - 1) \/ AtRun(title, i + 1)
        /\ Resolve(DeleteAt(title, i), orig)

\* another title altogether: one character dropped
DropChar ==
    \E i \in DOMAIN title :
        Resolve(DeleteAt(title, i), DeleteAt(title, i))

NextTitle ==
    \/ ChangeCase
    \/ InsertApostrophe
    \/ DeleteApostrophe
    \/ ReplaceSeparator
    \/ GrowRun
    \/ ShrinkRun
    \/ DropChar

SpecTitle == InitTitle /\ [][NextTitle]_vars

(***************************************************************************)
(* Claims on the title resolver (SpecTitle)                                *)
(***************************************************************************)

\* C3: title resolution is case- and punctuation-insensitive.  Every title
\* reached from orig by changing the case of letters, adding or removing
\* apostrophes, or rewriting runs of non-alphanumeric characters (leading
\* and trailing runs included) resolves to what orig resolves to; and
\* "Limited-Time Deals", "limited time deals", "LIMITED TIME DEALS" all
\* resolve to "limited-time-deals".
C3_CaseAndPunctuationInsensitive ==
    /\ resolved = titleToSlug(orig)
    /\ orig \in {T_LimitedTimeDeals, T_limited_time_deals, T_LIMITED_TIME_DEALS}
         => resolved = "limited-time-deals"

\* a title one edit away from "LIMITED TIME DEALS" that differs from it in
\* letter case or punctuation and has been resolved
C3_Witness ==
    /\ orig = T_LIMITED_TIME_DEALS
    /\ edits = 1
    /\ title # orig
    /\ resolved = "limited-time-deals"

\* C4: a title whose normal form is neither a key of the alias table nor the
\* normal form of a TAGS title resolves to "no match" (undefined).
C4_UnknownTitleNoMatch ==
    (/\ norm(title) \notin AliasKeys
     /\ \A k \in DOMAIN TAGS : norm(TAGS[k].title) # norm(title))
        => resolved = undefined

\* C5: round trip.  The display title of every section of TAGS resolves to a
\* slug whose index is the position of that very section in
\* [banner, categories, TAGS...]; "limited-time-deals" is at index 3.
C5_RoundTrip ==
    /\ \A k \in DOMAIN TAGS :
          title = TAGS[k].title =>
             /\ resolved = TAGS[k].slug
             /\ index = k + 1
             /\ sections[index + 1].type = "showcase"
             /\ sections[index + 1].title = TAGS[k].title
             /\ sections[index + 1].slug = TAGS[k].slug
    /\ title = T_LimitedTimeDeals => index = 3

\* the last section's title (held in the alias table without its apostrophe)
\* has been resolved and looked up
C5_Witness ==
    /\ title = T_ThisMonthsPicks
    /\ resolved = "this-months-picks"
    /\ index = 6

TagSlugs == {TAGS[k].slug : k \in DOMAIN TAGS}

\* C12: every value of the alias table is a slug of TAGS, every result of
\* titleToSlug other than "no match" is a slug of TAGS, and the index lookup
\* of such a result succeeds with the position of a showcase section.
C12_ResolvedIsIndexedSlug ==
    /\ \A k \in DOMAIN SHOWCASE_ALIAS : SHOWCASE_ALIAS[k].value \in TagSlugs
    /\ resolved # undefined =>
          /\ resolved \in TagSlugs
          /\ index # NoIndex
          /\ index + 1 \in DOMAIN sections
          /\ sections[index + 1].type = "showcase"

(***************************************************************************)
(* MainPage: the deep link (route.params.scrollTo)                         *)
(*                                                                         *)
(* sections is rebuilt by every render, so indexBySlug, scrollToShowcase,  *)
(* scrollToShowcaseTitle and the callback given to useFocusEffect are new  *)
(* on every render: while the screen is focused, every render runs the     *)
(* focus effect again.  The effect returns no cleanup, so nothing cancels  *)
(* a timer.  setTimeout(..., 100) followed by runAfterInteractions is one  *)
(* delay here: no state changes between the two.                           *)
(***************************************************************************)
MaxArrivals == 2
MaxTimers == 2

T_Blank == <<" ">>

\* the scrollTo values handed to the screen
DeepLinkTitles ==
    {T_LimitedTimeDeals, T_JustArrivedPadded, T_FlashSaleExtravaganza,
     T_constructor, T_Blank}

done == ~urlLoading /\ ~categoryLoading /\ ~timeDealLoading

HasScrollTo(p) == "scrollTo" \in DOMAIN p

\* route.params?.scrollTo?.trim()
TrimmedScrollTo(p) == IF HasScrollTo(p) THEN trim(p.scrollTo) ELSE <<>>

\* the focus effect without its "wait until content is ready" return
FocusEffect_NoDoneGuard(d, p, a, q) ==
    IF TrimmedScrollTo(p) = <<>> THEN q
    ELSE Append(q, [title |-> TrimmedScrollTo(p), arrival |-> a])

\* the callback of useFocusEffect, run with done = d, route.params = p on
\* arrival a: the timers after it, given the timers q before it
FocusEffect(d, p, a, q) ==
    IF ~d THEN q
    ELSE IF TrimmedScrollTo(p) = <<>> THEN q
    ELSE Append(q, [title |-> TrimmedScrollTo(p), arrival |-> a])

\* a render of MainPage with the primed state: the focus effect runs when the
\* screen is focused
Render ==
    /\ timers' = IF isFocused'
                 THEN FocusEffect(done', params', arrival', timers)
                 ELSE timers
    /\ Len(timers') <= MaxTimers

\* scrollToShowcase without its "index == null" return
scrollToShowcase_NoIndexGuard(slug, a, q) ==
    Append(q, [index |-> IndexGet(slug), arrival |-> a])

\* scrollToShowcase(slug) on behalf of arrival a: the scroll tasks after it
scrollToShowcase(slug, a, q) ==
    IF IndexGet(slug) = NoIndex THEN q
    ELSE Append(q, [index |-> IndexGet(slug), arrival |-> a])

\* scrollToShowcaseTitle(title)
scrollToShowcaseTitle(t, a, q) ==
    LET slug == titleToSlug(t)
    IN  IF slug # undefined THEN scrollToShowcase(slug, a, q) ELSE q

InitMain ==
    /\ IdleTitle
    /\ IdleFilter
    /\ MountedMain
    /\ MountedSupplements

\* the hooks report the end of their loading
FinishAdUrls ==
    /\ urlLoading
    /\ urlLoading' = FALSE
    /\ UNCHANGED <<categoryLoading, timeDealLoading, deferred, isFocused,
                   params, arrival, scrollTasks, requests, listIndex, lastTitle,
                   arrivedDone>>
    /\ Render
    /\ UNCHANGED <<tvars, uvars, svars>>

FinishCategories ==
    /\ categoryLoading
    /\ categoryLoading' = FALSE
    /\ UNCHANGED <<urlLoading, timeDealLoading, deferred, isFocused,
                   params, arrival, scrollTasks, requests, listIndex, lastTitle,
                   arrivedDone>>
    /\ Render
    /\ UNCHANGED <<tvars, uvars, svars>>

FinishTimeDeal ==
    /\ timeDealLoading
    /\ timeDealLoading' = FALSE
    /\ UNCHANGED <<urlLoading, categoryLoading, deferred, isFocused,
                   params, arrival, scrollTasks, requests, listIndex, lastTitle,
                   arrivedDone>>
    /\ Render
    /\ UNCHANGED <<tvars, uvars, svars>>

\* InteractionManager.runAfterInteractions(() => setDeferred(true))
SetDeferred ==
    /\ ~deferred
    /\ deferred' = TRUE
    /\ UNCHANGED <<urlLoading, categoryLoading, timeDealLoading, isFocused,
                   params, arrival, scrollTasks, requests, listIndex, lastTitle,
                   arrivedDone>>
    /\ Render
    /\ UNCHANGED <<tvars, uvars, svars>>

\* the navigator hands the screen a scrollTo
Arrive ==
    \E t \in DeepLinkTitles :
        /\ arrival < MaxArrivals
        /\ arrival' = arrival + 1
        /\ params' = [screen |-> "MainPage", scrollTo |-> t]
        /\ requests' = Append(requests, 0)
        /\ arrivedDone' = Append(arrivedDone, done)
        /\ UNCHANGED <<urlLoading, categoryLoading, timeDealLoading, deferred,
                       isFocused, scrollTasks, listIndex, lastTitle>>
        /\ Render
        /\ UNCHANGED <<tvars, uvars, svars>>

Focus ==
    /\ ~isFocused
    /\ isFocused' = TRUE
    /\ UNCHANGED <<urlLoading, categoryLoading, timeDealLoading, deferred,
                   params, arrival, scrollTasks, requests, listIndex, lastTitle,
                   arrivedDone>>
    /\ Render
    /\ UNCHANGED <<tvars, uvars, svars>>

Blur ==
    /\ isFocused
    /\ isFocused' = FALSE
    /\ UNCHANGED <<urlLoading, categoryLoading, timeDealLoading, deferred,
                   params, arrival, scrollTasks, requests, listIndex, lastTitle,
                   arrivedDone>>
    /\ Render
    /\ UNCHANGED <<tvars, uvars, svars>>

\* the oldest timer callback runs: scrollToShowcaseTitle(title), then
\* navigation.setParams({ scrollTo: undefined })
TimerFire ==
    /\ timers # <<>>
    /\ LET t == Head(timers)
           tasks == scrollToShowcaseTitle(t.title, t.arrival, scrollTasks)
       IN  /\ scrollTasks' = tasks
           /\ requests' = IF Len(tasks) > Len(scrollTasks)
                          THEN [requests EXCEPT ![t.arrival] = @ + 1]
                          ELSE requests
           /\ lastTitle' = t.title
    /\ params' = NoParams
    /\ timers' = IF isFocused
                 THEN FocusEffect(done, NoParams, arrival, Tail(timers))
                 ELSE Tail(timers)
    /\ UNCHANGED <<urlLoading, categoryLoading, timeDealLoading, deferred,
                   isFocused, arrival, listIndex, arrivedDone>>
    /\ UNCHANGED <<tvars, uvars, svars>>

\* the oldest scroll task runs: listRef.current?.scrollToIndex({ index, ... })
ScrollTaskRun ==
    /\ scrollTasks # <<>>
    /\ listIndex' = Head(scrollTasks).index
    /\ scrollTasks' = Tail(scrollTasks)
    /\ UNCHANGED <<urlLoading, categoryLoading, timeDealLoading, deferred,
                   isFocused, params, arrival, timers, requests, lastTitle,
                   arrivedDone>>
    /\ UNCHANGED <<tvars, uvars, svars>>

NextMain ==
    \/ FinishAdUrls
    \/ FinishCategories
    \/ FinishTimeDeal
    \/ SetDeferred
    \/ Arrive
    \/ Focus
    \/ Blur
    \/ TimerFire
    \/ ScrollTaskRun

SpecMain == InitMain /\ [][NextMain]_vars

\* Timers and delayed interactions do run: a pending callback is not left
\* waiting for ever.  The steps that take the head off timers are the steps
\* of TimerFire, those that take the head off scrollTasks the steps of
\* ScrollTaskRun.
TimerRuns == timers # <<>> /\ timers' = Tail(timers)
ScrollTaskRuns == scrollTasks # <<>> /\ scrollTasks' = Tail(scrollTasks)

FairSpecMain ==
    SpecMain /\ WF_timers(TimerRuns) /\ WF_scrollTasks(ScrollTaskRuns)

(***************************************************************************)
(* Claims on the deep link (SpecMain, FairSpecMain)                        *)
(***************************************************************************)

\* the position (zero-based) of the showcase row of sections with this slug
HasPosition(slug) ==
    \E i \in DOMAIN sections :
        sections[i].type = "showcase" /\ sections[i].slug = slug

PositionOf(slug) ==
    (CHOOSE i \in DOMAIN sections :
        sections[i].type = "showcase" /\ sections[i].slug = slug) - 1

\* C6: one-shot deep link.  For each arrival of a scrollTo the scroll to the
\* resolved section is requested at most once; after the parameter has been
\* consumed and cleared, no re-focus or re-render repeats the scroll.
C6_ScrollAtMostOncePerArrival ==
    \A a \in DOMAIN requests : requests[a] <= 1

\* C7: the timer callback requests a scroll iff the title resolves to a slug
\* and the slug has a position in sections (the request is for that
\* position); whether or not it does, it clears scrollTo; and no other step
\* requests a scroll.
C7_ScrollIffResolved ==
    [][IF Len(timers') < Len(timers)
       THEN LET t == Head(timers)
                slug == titleToSlug(t.title)
            IN  /\ IF slug # undefined /\ HasPosition(slug)
                   THEN scrollTasks' =
                          Append(scrollTasks, [index |-> PositionOf(slug),
                                               arrival |-> t.arrival])
                   ELSE scrollTasks' = scrollTasks
                /\ ~HasScrollTo(params')
       ELSE Len(scrollTasks') <= Len(scrollTasks)]_vars

\* the callback ran for a title that resolves to nothing: no scroll was
\* requested and scrollTo is cleared
C7_Witness ==
    /\ lastTitle = T_FlashSaleExtravaganza
    /\ arrival = 1
    /\ ~HasScrollTo(params)
    /\ scrollTasks = <<>>
    /\ requests = <<0>>

\* the scrollTo values that name a section of the list
ServableTitles ==
    {t \in DeepLinkTitles : HasPosition(titleToSlug(trim(t)))}

\* C8: no scroll is requested or run, and scrollTo is not cleared, while one
\* of the three hooks is loading; whenever the screen is focused, the three
\* have finished and scrollTo holds a title, a timer for it is pending; and a
\* scrollTo that resolves to a section is then served (its scroll requested).
C8_DeferredUntilLoaded ==
    /\ [][(\/ scrollTasks' # scrollTasks
           \/ HasScrollTo(params) /\ ~HasScrollTo(params'))
             => done /\ done']_vars
    /\ [](isFocused /\ done /\ TrimmedScrollTo(params) # <<>>
            => \E k \in DOMAIN timers :
                  timers[k] = [title |-> TrimmedScrollTo(params),
                               arrival |-> arrival])
    /\ \A a \in 1..MaxArrivals :
          (/\ arrival = a
           /\ isFocused
           /\ done
           /\ HasScrollTo(params)
           /\ params.scrollTo \in ServableTitles)
             ~> (a \in DOMAIN requests /\ requests[a] >= 1)

\* a scrollTo that arrived while the hooks were loading has been served
C8_Witness ==
    \E a \in DOMAIN requests :
        /\ ~arrivedDone[a]
        /\ requests[a] >= 1
        /\ done
        /\ listIndex = 3

(***************************************************************************)
(* Supplements screen: refresh on focus, handleDeleted                     *)
(*                                                                         *)
(* The continuation of "await Promise.all([...])" runs in the same task as *)
(* the resolution of the second fetch, so setSupplements,                  *)
(* setUnscheduledSupplements and the finally block are one step with it.   *)
(***************************************************************************)
MaxRefreshes == 2

Reminder(ids) == [time |-> "08:00", selectedSupplements |-> ids]

\* what listSupplements() may resolve to
SupplementSnapshots == {<<>>, <<Item(1)>>, <<Item(2), Item(1)>>}

\* what listReminders() may resolve to
ReminderSnapshots ==
    {<<>>, <<Reminder(<<1>>)>>, <<[time |-> "08:00"], Reminder(<<2>>)>>}

SnapshotIds == {1, 2}

\* a call of refresh() awaiting both fetches
Started ==
    [status |-> "inflight",
     suppsResolved |-> FALSE, supps |-> <<>>,
     remsResolved |-> FALSE, rems |-> <<>>]

InFlight(r) == r \in DOMAIN refreshes /\ refreshes[r].status = "inflight"

\* a continuation that derives the unscheduled items from no reminders
ApplyResults_IgnoreReminders(supps, rems) ==
    [supplements |-> supps,
     unscheduledSupplements |-> computeUnscheduled(supps, <<>>)]

\* setSupplements(supps); setUnscheduledSupplements(computeUnscheduled(...))
ApplyResults(supps, rems) ==
    [supplements |-> supps,
     unscheduledSupplements |-> computeUnscheduled(supps, rems)]

\* prev.filter((s) => s.id !== id)
RECURSIVE WithoutId(_, _)
WithoutId(prev, id) ==
    IF prev = <<>> THEN <<>>
    ELSE IF Head(prev).id # id
         THEN <<Head(prev)>> \o WithoutId(Tail(prev), id)
         ELSE WithoutId(Tail(prev), id)

InitSupplements ==
    /\ IdleTitle
    /\ IdleFilter
    /\ MountedMain
    /\ MountedSupplements

\* the tab gains focus: the focus effect calls refresh(), which sets loading
\* and starts both fetches
TabFocus ==
    /\ ~tabFocused
    /\ Len(refreshes) < MaxRefreshes
    /\ tabFocused' = TRUE
    /\ loading' = TRUE
    /\ refreshes' = Append(refreshes, Started)
    /\ UNCHANGED <<supplements, unscheduledSupplements, applied, deletedSince>>
    /\ UNCHANGED <<tvars, uvars, mvars>>

TabBlur ==
    /\ tabFocused
    /\ tabFocused' = FALSE
    /\ UNCHANGED <<supplements, unscheduledSupplements, loading, refreshes,
                   applied, deletedSince>>
    /\ UNCHANGED <<tvars, uvars, mvars>>

\* both fetches of call r have resolved: the rest of the try block, then the
\* finally block
Continue(r, supps, rems) ==
    /\ supplements' = ApplyResults(supps, rems).supplements
    /\ unscheduledSupplements' = ApplyResults(supps, rems).unscheduledSupplements
    /\ loading' = FALSE
    /\ applied' = r
    /\ deletedSince' = {}

\* listSupplements() of call r resolves
ResolveSupplements ==
    \E r \in DOMAIN refreshes, v \in SupplementSnapshots :
        /\ InFlight(r)
        /\ ~refreshes[r].suppsResolved
        /\ IF refreshes[r].remsResolved
           THEN /\ refreshes' = [refreshes EXCEPT ![r].suppsResolved = TRUE,
                                                  ![r].supps = v,
                                                  ![r].status = "done"]
                /\ Continue(r, v, refreshes[r].rems)
           ELSE /\ refreshes' = [refreshes EXCEPT ![r].suppsResolved = TRUE,
                                                  ![r].supps = v]
                /\ UNCHANGED <<supplements, unscheduledSupplements, loading,
                               applied, deletedSince>>
        /\ UNCHANGED tabFocused
        /\ UNCHANGED <<tvars, uvars, mvars>>

\* listReminders() of call r resolves
ResolveReminders ==
    \E r \in DOMAIN refreshes, v \in ReminderSnapshots :
        /\ InFlight(r)
        /\ ~refreshes[r].remsResolved
        /\ IF refreshes[r].suppsResolved
           THEN /\ refreshes' = [refreshes EXCEPT ![r].remsResolved = TRUE,
                                                  ![r].rems = v,
                                                  ![r].status = "done"]
                /\ Continue(r, refreshes[r].supps, v)
           ELSE /\ refreshes' = [refreshes EXCEPT ![r].remsResolved = TRUE,
                                                  ![r].rems = v]
                /\ UNCHANGED <<supplements, unscheduledSupplements, loading,
                               applied, deletedSince>>
        /\ UNCHANGED tabFocused
        /\ UNCHANGED <<tvars, uvars, mvars>>

\* a rejection handled without a finally block: loading stays as it was
FetchRejects_NoFinally ==
    \E r \in DOMAIN refreshes :
        /\ InFlight(r)
        /\ refreshes' = [refreshes EXCEPT ![r] =
                            [status |-> "failed",
                             suppsResolved |-> FALSE, supps |-> <<>>,
                             remsResolved |-> FALSE, rems |-> <<>>]]
        /\ UNCHANGED <<supplements, unscheduledSupplements, loading,
                       tabFocused, applied, deletedSince>>
        /\ UNCHANGED <<tvars, uvars, mvars>>

\* a fetch of call r rejects: Promise.all rejects, the rest of the try block
\* is skipped and the finally block runs
FetchRejects ==
    \E r \in DOMAIN refreshes :
        /\ InFlight(r)
        /\ refreshes' = [refreshes EXCEPT ![r] =
                            [status |-> "failed",
                             suppsResolved |-> FALSE, supps |-> <<>>,
                             remsResolved |-> FALSE, rems |-> <<>>]]
        /\ loading' = FALSE
        /\ UNCHANGED <<supplements, unscheduledSupplements, tabFocused,
                       applied, deletedSince>>
        /\ UNCHANGED <<tvars, uvars, mvars>>

\* a card reports that its supplement was deleted
HandleDeleted ==
    \E id \in SnapshotIds :
        /\ supplements' = WithoutId(supplements, id)
        /\ deletedSince' = deletedSince \cup {id}
        /\ UNCHANGED <<unscheduledSupplements, loading, tabFocused, refreshes,
                       applied>>
        /\ UNCHANGED <<tvars, uvars, mvars>>

NextSupplements ==
    \/ TabFocus
    \/ TabBlur
    \/ ResolveSupplements
    \/ ResolveReminders
    \/ FetchRejects
    \/ HandleDeleted

SpecSupplements == InitSupplements /\ [][NextSupplements]_vars

(***************************************************************************)
(* Claims on the Supplements screen (SpecSupplements)                      *)
(***************************************************************************)

\* C9: loading is true from the start of a refresh until both of its fetches
\* have resolved and false once they have; in particular loading is never
\* false while a refresh is in flight, overlapping refreshes included.
C9_LoadingWhileRefreshInFlight ==
    /\ (\E r \in DOMAIN refreshes : InFlight(r)) => loading
    /\ (refreshes # <<>> /\ \A r \in DOMAIN refreshes : ~InFlight(r)) => ~loading

AllSettledSuccessfully ==
    /\ refreshes # <<>>
    /\ \A r \in DOMAIN refreshes : refreshes[r].status = "done"

RECURSIVE WithoutIds(_, _)
WithoutIds(supps, ids) ==
    IF ids = {} THEN supps
    ELSE LET id == CHOOSE x \in ids : TRUE
         IN  WithoutIds(WithoutId(supps, id), ids \ {id})

\* C10 as claimed: once every refresh has settled successfully, supplements
\* and unscheduledSupplements are those computed from the pair returned to
\* the refresh started last (stated for the runs without handleDeleted).
C10_LatestStartedWins ==
    (AllSettledSuccessfully /\ deletedSince = {}) =>
        LET last == refreshes[Len(refreshes)]
        IN  /\ supplements = last.supps
            /\ unscheduledSupplements = computeUnscheduled(last.supps, last.rems)

\* C10 as amended: once every refresh has settled successfully, supplements
\* and unscheduledSupplements are those computed from the pair returned to
\* the refresh that completed last, supplements without the ids handleDeleted
\* has removed since.
C10_LastCompletedWins ==
    AllSettledSuccessfully =>
        /\ applied \in DOMAIN refreshes
        /\ supplements = WithoutIds(refreshes[applied].supps, deletedSince)
        /\ unscheduledSupplements =
              computeUnscheduled(refreshes[applied].supps, refreshes[applied].rems)

\* two overlapping refreshes, the first started completing last with another
\* pair than the second
C10_Witness ==
    /\ Len(refreshes) = 2
    /\ AllSettledSuccessfully
    /\ applied = 1
    /\ refreshes[1].supps # refreshes[2].supps
    /\ supplements = refreshes[1].supps
    /\ unscheduledSupplements # <<>>

\* a refresh that finishes without the rest of its try block having run
NotCompleted(r) == refreshes'[r].status # "done"

\* a step of call r of refresh(): its start, or a change of its record
StepOf(r) ==
    IF r \in DOMAIN refreshes THEN refreshes'[r] # refreshes[r] ELSE TRUE

\* C11: a refresh one of whose fetches fails changes neither supplements nor
\* unscheduledSupplements in any of its steps, never becomes the refresh
\* whose results are shown, and sets loading to false in the step it fails.
C11_FailedRefreshLeavesData ==
    /\ [][\A r \in DOMAIN refreshes' :
            (StepOf(r) /\ NotCompleted(r)) =>
                /\ supplements' = supplements
                /\ unscheduledSupplements' = unscheduledSupplements
                /\ (refreshes'[r].status = "failed" => loading' = FALSE)]_vars
    /\ [](applied # 0 => refreshes[applied].status = "done")

\* the second refresh has failed after the first one succeeded: the first
\* one's lists are still in place and the screen is not loading
C11_Witness ==
    /\ Len(refreshes) = 2
    /\ refreshes[1].status = "done"
    /\ refreshes[2].status = "failed"
    /\ deletedSince = {}
    /\ supplements = refreshes[1].supps
    /\ supplements # <<>>
    /\ unscheduledSupplements # <<>>
    /\ ~loading

====
